---- MODULE Spec2Model ----
(***************************************************************************)
(* Model of source3/libads/ads_struct.c: the LDAP path codec               *)
(* (ads_build_path, ads_build_dn, ads_build_domain) and the lifecycle of   *)
(* ADS_STRUCT (ads_init, ads_set_sasl_wrap_flags, ads_destroy).            *)
(*                                                                         *)
(* C strings are sequences of one-character strings; the null pointer is   *)
(* the value NULL, which is no C string.                                   *)
(***************************************************************************)
EXTENDS Integers, Sequences, FiniteSets, TLC

NULL == <<"NULL">>

(* ---- bounds of the path codec ---- *)
MaxLen == 5
MaxFails == 1

NameChars == {"a", "b", "B", "."}
Names == UNION {[1..n -> NameChars] : n \in 0..MaxLen}
Seps == {{"."}, {".", "B"}}
Fields == {<<"d", "c", "=">>, <<>>}

VARIABLES
    pc,         \* path codec: "input", "built", "domain"
    name,       \* the realm/name argument
    sep,        \* separator characters of the last ads_build_path call
    field,      \* field prefix of the last ads_build_path call
    reverse,    \* reverse argument of the last ads_build_path call
    ret,        \* value returned by ads_build_path
    crashed,    \* the call dereferenced a null pointer and the process died
    failed,     \* allocations of the ads_build_path call that failed
    dnsdomain,  \* value returned by ads_build_domain(ret)
    dfailed     \* the SMB_STRDUP of ads_build_domain failed

pathvars == <<pc, name, sep, field, reverse, ret, crashed, failed, dnsdomain, dfailed>>

VARIABLES
    ads,        \* the caller's ADS_STRUCT pointer: "null" or "ptr"
    storage,    \* the memory ads points to: "none", "heap", "caller", "freed"
    st,         \* the contents of the ADS_STRUCT
    op,         \* the last operation called
    args,       \* the arguments (and collaborator answers) of that call
    result,     \* the value ads_set_sasl_wrap_flags returned
    released,   \* the blocks the last operation passed to free()
    ndestroy,   \* ads_destroy calls made on the handle so far
    fault       \* freed memory was used

ctxvars == <<ads, storage, st, op, args, result, released, ndestroy, fault>>

vars == <<pathvars, ctxvars>>

(* ---- libc helpers used by ads_build_path ---- *)

RECURSIVE SkipDelims(_, _)
SkipDelims(s, delims) ==
    IF s # <<>> /\ Head(s) \in delims THEN SkipDelims(Tail(s), delims) ELSE s

RECURSIVE TokLen(_, _)
TokLen(s, delims) ==
    IF s = <<>> \/ Head(s) \in delims THEN 0 ELSE 1 + TokLen(Tail(s), delims)

(* strtok_r(str, sep, &saveptr): skip leading delimiters, return the run up *)
(* to the next delimiter, leave saveptr behind that delimiter.              *)
strtok_r(s, delims) ==
    LET b == SkipDelims(s, delims)
        n == TokLen(b, delims)
    IN  IF b = <<>>
        THEN [tok |-> NULL, save |-> <<>>]
        ELSE [tok |-> SubSeq(b, 1, n), save |-> SubSeq(b, n + 2, Len(b))]

(* printf("%s", NULL) is undefined; glibc prints "(null)" *)
NullText == <<"(", "n", "u", "l", "l", ")">>

asprintf_fmt_append_only(rev, fld, p, cur) == cur \o <<",">> \o fld \o p

(* the two format strings of the token loop *)
asprintf_fmt(rev, fld, p, cur) ==
    IF rev THEN fld \o p \o <<",">> \o cur
           ELSE cur \o <<",">> \o fld \o p

Outcome(r, n, c) == [ret |-> r, nalloc |-> n, crashed |-> c]

(* while ((p = strtok_r(NULL, sep, &saveptr)) != NULL) { ... }             *)
(* cur is ret, n the number of allocations made so far, F the allocations  *)
(* that fail.  A null ret passed to asprintf is undefined behaviour: the   *)
(* process dies or the text "(null)" is formatted.                         *)
RECURSIVE TokenLoop(_, _, _, _, _, _, _)
TokenLoop(cur, save, delims, fld, rev, F, n) ==
    LET t == strtok_r(save, delims)
        Step(c) ==
            IF (n + 1) \in F
            THEN {Outcome(NULL, n + 1, FALSE)}
            ELSE LET s == asprintf_fmt(rev, fld, t.tok, c)
                     dup == IF (n + 2) \in F THEN NULL ELSE s
                 IN  TokenLoop(dup, t.save, delims, fld, rev, F, n + 2)
    IN  IF t.tok = NULL
        THEN {Outcome(cur, n, FALSE)}
        ELSE IF cur = NULL
             THEN {Outcome(NULL, n, TRUE)} \cup Step(NullText)
             ELSE Step(cur)

ads_build_path(realm, delims, fld, rev, F) ==
    LET r == IF 1 \in F THEN NULL ELSE realm
    IN  IF r = NULL \/ r = <<>>
        THEN {Outcome(r, 1, FALSE)}
        ELSE
        LET numbits == Cardinality({i \in 1..Len(r) : r[i] \in delims})
            len == (numbits + 1) * (Len(fld) + 1) + Len(r) + 1
            t == strtok_r(r, delims)
        IN  IF 2 \in F
            THEN {Outcome(NULL, 2, FALSE)}
            ELSE IF Len(fld) >= len
            THEN {Outcome(NULL, 2, FALSE)}
            ELSE IF t.tok = NULL
            THEN {Outcome(fld, 2, FALSE)}
            ELSE IF Len(fld) + Len(t.tok) >= len
            THEN {Outcome(NULL, 2, FALSE)}
            ELSE TokenLoop(fld \o t.tok, t.save, delims, fld, rev, F, 2)

ads_build_dn_reversed(realm, F) ==
    ads_build_path(realm, {"."}, <<"d", "c", "=">>, TRUE, F)

ads_build_dn(realm, F) ==
    ads_build_path(realm, {"."}, <<"d", "c", "=">>, FALSE, F)

(* ---- helpers of ads_build_domain (lib/util, not part of this file) ---- *)

LowerChar(c) == IF c = "B" THEN "b" ELSE c

strlower_m(s) == [i \in 1..Len(s) |-> LowerChar(s[i])]

IsPrefix(p, s) == Len(p) <= Len(s) /\ SubSeq(s, 1, Len(p)) = p

RECURSIVE all_string_sub(_, _, _)
all_string_sub(s, pattern, insert) ==
    IF s = <<>> THEN <<>>
    ELSE IF IsPrefix(pattern, s)
    THEN insert \o all_string_sub(SubSeq(s, Len(pattern) + 1, Len(s)), pattern, insert)
    ELSE <<Head(s)>> \o all_string_sub(Tail(s), pattern, insert)

ads_build_domain(dn, dupfails) ==
    IF dupfails THEN NULL
    ELSE LET lower == strlower_m(dn)
             nodc == all_string_sub(lower, <<"d", "c", "=">>, <<>>)
         IN  all_string_sub(nodc, <<",">>, <<".">>)

(* ---- allocation failures of one ads_build_path call ---- *)

(* a name of n characters has at most (n+1)/2 tokens: one SMB_STRDUP, one  *)
(* SMB_MALLOC and two allocations for every token after the first          *)
MaxAllocs == MaxLen + 1
FailSets == {F \in SUBSET (1..MaxAllocs) : Cardinality(F) <= MaxFails}

(* ---- ADS_STRUCT ---- *)

ADS_AUTH_SASL_SIGN == "ADS_AUTH_SASL_SIGN"
ADS_AUTH_SASL_SEAL == "ADS_AUTH_SASL_SEAL"
ADS_AUTH_NO_BIND == "ADS_AUTH_NO_BIND"

(* the bits of auth.flags that the model follows; an int is the set of its *)
(* one bits, and -1 the set of all bits                                    *)
Bits == {ADS_AUTH_SASL_SIGN, ADS_AUTH_SASL_SEAL, ADS_AUTH_NO_BIND}
MinusOne == Bits \cup {"the other bits"}

SaslStates == {"ADS_SASL_PLAIN", "ADS_SASL_SIGN", "ADS_SASL_SEAL"}

ServerFields == {"server.realm", "server.workgroup", "server.ldap_server"}
AuthFields == {"auth.realm", "auth.password", "auth.user_name", "auth.kdc_server",
               "auth.ccache_name"}
ConfigFields == {"config.realm", "config.bind_path", "config.ldap_server_name",
                 "config.server_site_name", "config.client_site_name",
                 "config.schema_path", "config.config_path"}
StrFields == ServerFields \cup AuthFields \cup ConfigFields

(* ZERO_STRUCTP(ads); ads_zero_ldap(ads) *)
ZeroStruct ==
    [str |-> [f \in StrFields |-> NULL],
     flags |-> {},
     ldap_page_size |-> 0,
     is_mine |-> FALSE,
     ld |-> FALSE]

(* ---- bounds of the context model ---- *)
MaxPopulated == 1
MaxDestroys == 2

(* what the callers and the policy source supply *)
InputStr == [f \in ServerFields |->
                IF f = "server.realm" THEN <<"R">>
                ELSE IF f = "server.workgroup" THEN <<"W">> ELSE <<"S">>]
ServerInputs == {[f \in ServerFields |-> IF f \in P THEN InputStr[f] ELSE NULL] :
                    P \in SUBSET ServerFields}
WrapPolicy == (SUBSET Bits) \cup {MinusOne}
PageSizes == {500, 1000}

NoArgs == [none |-> TRUE]

Running == op # "panic" /\ ~fault

(* the caller's handle starts out unset and is given one context *)
HandleFree == ads = "null" /\ storage = "none"

(* SMB_STRDUP(s): a copy of s, or NULL when the allocation fails *)
SMB_STRDUP(s, fails) == IF fails THEN NULL ELSE s

WrapFlagsForState_seal_also_signs(wrap_flags, sasl_state) ==
    LET base == IF wrap_flags = MinusOne THEN {} ELSE wrap_flags
    IN  CASE sasl_state = "ADS_SASL_PLAIN" -> base
          [] sasl_state = "ADS_SASL_SIGN" -> base \cup {ADS_AUTH_SASL_SIGN}
          [] sasl_state = "ADS_SASL_SEAL" ->
                base \cup {ADS_AUTH_SASL_SIGN, ADS_AUTH_SASL_SEAL}

(* wrap_flags of ads_init: the policy value, 0 for -1, then the switch *)
WrapFlagsForState(wrap_flags, sasl_state) ==
    LET base == IF wrap_flags = MinusOne THEN {} ELSE wrap_flags
    IN  CASE sasl_state = "ADS_SASL_PLAIN" -> base
          [] sasl_state = "ADS_SASL_SIGN" -> base \cup {ADS_AUTH_SASL_SIGN}
          [] sasl_state = "ADS_SASL_SEAL" -> base \cup {ADS_AUTH_SASL_SEAL}

(* ads_init: SMB_XMALLOC_P panics when it cannot allocate; the three       *)
(* SMB_STRDUP results are stored unchecked                                 *)
ads_init ==
    /\ Running
    /\ HandleFree
    /\ \E in \in ServerInputs, sasl_state \in SaslStates, wrap \in WrapPolicy,
          page \in PageSizes, dupfails \in SUBSET ServerFields, xmalloc_ok \in BOOLEAN :
         /\ \A f \in dupfails : in[f] # NULL
         /\ IF ~xmalloc_ok
            THEN /\ op' = "panic"
                 /\ args' = NoArgs
                 /\ UNCHANGED <<ads, storage, st, ndestroy>>
            ELSE /\ op' = "init"
                 /\ args' = [in |-> in, sasl_state |-> sasl_state, wrap |-> wrap,
                             page |-> page, dupfails |-> dupfails]
                 /\ ads' = "ptr"
                 /\ storage' = "heap"
                 /\ st' = [ZeroStruct EXCEPT
                             !.str = [f \in StrFields |->
                                        IF f \in ServerFields /\ in[f] # NULL
                                        THEN SMB_STRDUP(in[f], f \in dupfails)
                                        ELSE NULL],
                             !.is_mine = TRUE,
                             !.flags = WrapFlagsForState(wrap, sasl_state),
                             !.ldap_page_size = page]
                 /\ ndestroy' = 0
    /\ released' = {}
    /\ UNCHANGED <<result, fault, pathvars>>

(* a caller that keeps the ADS_STRUCT in storage of its own: zeroed, the   *)
(* server strings filled in, is_mine left 0                                *)
caller_init ==
    /\ Running
    /\ HandleFree
    /\ \E in \in ServerInputs :
         /\ st' = [ZeroStruct EXCEPT
                     !.str = [f \in StrFields |->
                                IF f \in ServerFields THEN in[f] ELSE NULL]]
         /\ args' = [in |-> in]
    /\ op' = "caller_init"
    /\ ads' = "ptr"
    /\ storage' = "caller"
    /\ ndestroy' = 0
    /\ released' = {}
    /\ UNCHANGED <<result, fault, pathvars>>

(* the transport code fills an auth or config string with an owned copy *)
populate ==
    /\ Running
    /\ ads = "ptr"
    /\ storage \in {"heap", "caller"}
    /\ ndestroy = 0
    /\ Cardinality({f \in AuthFields \cup ConfigFields : st.str[f] # NULL}) < MaxPopulated
    /\ \E f \in AuthFields \cup ConfigFields :
         /\ st.str[f] = NULL
         /\ st' = [st EXCEPT !.str[f] = <<"p">>]
    /\ op' = "populate"
    /\ args' = NoArgs
    /\ released' = {}
    /\ UNCHANGED <<ads, storage, result, ndestroy, fault, pathvars>>

(* the transport code opens the LDAP connection *)
connect ==
    /\ Running
    /\ ads = "ptr"
    /\ storage \in {"heap", "caller"}
    /\ ndestroy = 0
    /\ ~st.ld
    /\ st' = [st EXCEPT !.ld = TRUE]
    /\ op' = "connect"
    /\ args' = NoArgs
    /\ released' = {}
    /\ UNCHANGED <<ads, storage, result, ndestroy, fault, pathvars>>

SetFlags_overwrite(old, flags) == flags

(* other_flags = ads->auth.flags & ~(SIGN|SEAL); ads->auth.flags = flags | other_flags *)
SetFlags(old, flags) ==
    LET other_flags == old \ {ADS_AUTH_SASL_SIGN, ADS_AUTH_SASL_SEAL}
    IN  flags \cup other_flags

ads_set_sasl_wrap_flags ==
    /\ Running
    /\ \E handle \in {ads, "null"}, flags \in SUBSET Bits :
         /\ args' = [handle |-> handle, flags |-> flags]
         /\ IF handle = "null"
            THEN /\ result' = FALSE
                 /\ UNCHANGED <<st, fault>>
            ELSE IF storage = "freed"
            THEN /\ fault' = TRUE
                 /\ UNCHANGED <<st, result>>
            ELSE /\ st' = [st EXCEPT !.flags = SetFlags(st.flags, flags)]
                 /\ result' = TRUE
                 /\ UNCHANGED fault
    /\ op' = "set_flags"
    /\ released' = {}
    /\ UNCHANGED <<ads, storage, ndestroy, pathvars>>

DestroyHandle_always_null(handle, is_mine) == "null"

DestroyHandle_never_null(handle, is_mine) == handle

(* if ( is_mine ) SAFE_FREE of the handle: the handle is nulled with the release *)
DestroyHandle(handle, is_mine) == IF is_mine THEN "null" ELSE handle

DestroyStorage_always_freed(mem, is_mine) == "freed"

(* if ( is_mine ) SAFE_FREE of the handle: the context's storage is released *)
DestroyStorage(mem, is_mine) == IF is_mine THEN "freed" ELSE mem

(* the SAFE_FREE of every string of s: the blocks passed to free() *)
FreedStrings(s) == {f \in StrFields : s.str[f] # NULL}

ads_destroy ==
    /\ Running
    /\ ndestroy < MaxDestroys
    /\ \E ref \in {"handle", "null"} :
         /\ args' = [ref |-> ref, handle |-> ads]
         /\ IF ref = "null" \/ ads = "null"
            THEN /\ released' = {}
                 /\ UNCHANGED <<ads, storage, st, fault>>
            ELSE IF storage = "freed"
            THEN /\ fault' = TRUE
                 /\ released' = {}
                 /\ UNCHANGED <<ads, storage, st>>
            ELSE LET is_mine == st.is_mine
                 IN  /\ released' = FreedStrings(st) \cup
                           (IF DestroyStorage(storage, is_mine) = "freed"
                            THEN {"ctx"} ELSE {})
                     /\ st' = ZeroStruct
                     /\ storage' = DestroyStorage(storage, is_mine)
                     /\ ads' = DestroyHandle(ads, is_mine)
                     /\ UNCHANGED fault
         /\ ndestroy' = IF ref = "null" THEN ndestroy ELSE ndestroy + 1
    /\ op' = "destroy"
    /\ UNCHANGED <<result, pathvars>>

CtxIdle ==
    /\ ads = "null"
    /\ storage = "none"
    /\ st = ZeroStruct
    /\ op = "none"
    /\ args = NoArgs
    /\ result = FALSE
    /\ released = {}
    /\ ndestroy = 0
    /\ fault = FALSE

PathIdle ==
    /\ pc = "input"
    /\ name = <<>>
    /\ sep = {}
    /\ field = <<>>
    /\ reverse = FALSE
    /\ ret = NULL
    /\ crashed = FALSE
    /\ failed = {}
    /\ dnsdomain = NULL
    /\ dfailed = FALSE

Init == CtxIdle /\ PathIdle

Next ==
    \/ ads_init
    \/ caller_init
    \/ populate
    \/ connect
    \/ ads_set_sasl_wrap_flags
    \/ ads_destroy

Spec == Init /\ [][Next]_vars

(* ---- the path codec as a state machine ---- *)

PathInit ==
    /\ pc = "input"
    /\ name \in Names
    /\ sep = {}
    /\ field = <<>>
    /\ reverse = FALSE
    /\ ret = NULL
    /\ crashed = FALSE
    /\ failed = {}
    /\ dnsdomain = NULL
    /\ dfailed = FALSE
    /\ CtxIdle

Built(delims, fld, rev, F, o) ==
    /\ pc' = "built"
    /\ sep' = delims
    /\ field' = fld
    /\ reverse' = rev
    /\ ret' = o.ret
    /\ crashed' = o.crashed
    /\ failed' = F \cap (1..o.nalloc)
    /\ UNCHANGED <<name, dnsdomain, dfailed, ctxvars>>

CallBuildPath ==
    /\ pc = "input"
    /\ \E delims \in Seps, fld \in Fields, rev \in BOOLEAN, F \in FailSets :
         \E o \in ads_build_path(name, delims, fld, rev, F) :
            Built(delims, fld, rev, F, o)

CallBuildDn ==
    /\ pc = "input"
    /\ \E F \in FailSets :
         \E o \in ads_build_dn(name, F) :
            Built({"."}, <<"d", "c", "=">>, FALSE, F, o)

CallBuildDomain ==
    /\ pc = "built"
    /\ ~crashed
    /\ ret # NULL
    /\ \E dupfails \in BOOLEAN :
         /\ dnsdomain' = ads_build_domain(ret, dupfails)
         /\ dfailed' = dupfails
    /\ pc' = "domain"
    /\ UNCHANGED <<name, sep, field, reverse, ret, crashed, failed, ctxvars>>

PathNext == CallBuildPath \/ CallBuildDn \/ CallBuildDomain

PathSpec == PathInit /\ [][PathNext]_vars

(* ======================= properties of the path codec ================== *)

(* split with empty pieces kept: the pieces of s between delimiters *)
RECURSIVE SplitOn(_, _)
SplitOn(s, delims) ==
    IF \A i \in 1..Len(s) : s[i] \notin delims
    THEN <<s>>
    ELSE LET k == CHOOSE i \in 1..Len(s) :
                    s[i] \in delims /\ \A j \in 1..(i - 1) : s[j] \notin delims
         IN  <<SubSeq(s, 1, k - 1)>> \o SplitOn(SubSeq(s, k + 1, Len(s)), delims)

NonEmptyTokens(s, delims) == SelectSeq(SplitOn(s, delims), LAMBDA t : t # <<>>)

RECURSIVE JoinComma(_)
JoinComma(segs) ==
    IF segs = <<>> THEN <<>>
    ELSE IF Len(segs) = 1 THEN segs[1]
    ELSE segs[1] \o <<",">> \o JoinComma(Tail(segs))

ReverseSeq(q) == [i \in 1..Len(q) |-> q[Len(q) + 1 - i]]

PrefixedTokens(s, delims, fld) ==
    LET toks == NonEmptyTokens(s, delims)
    IN  [i \in 1..Len(toks) |-> fld \o toks[i]]

PathCalled == pc \in {"built", "domain"}

(* C1: with reverse false and no allocation failing, ads_build_path        *)
(* returns the comma-joined field+token over the non-empty tokens of the   *)
(* name, in input order; a name without tokens gives an empty or absent    *)
(* result.                                                                 *)
C1_ForwardPathIsJoinedTokens ==
    (PathCalled /\ ~reverse /\ failed = {}) =>
        /\ ~crashed
        /\ IF NonEmptyTokens(name, sep) = <<>>
           THEN ret \in {<<>>, NULL}
           ELSE ret = JoinComma(PrefixedTokens(name, sep, field))

(* the result of the same call when every allocation succeeds *)
CompletePath == (CHOOSE o \in ads_build_path(name, sep, field, reverse, {}) : TRUE).ret

(* C9: when an allocation inside ads_build_path fails the call returns     *)
(* null; a non-null result for a non-empty name is the complete path.      *)
C9_AllocFailureGivesNull ==
    PathCalled =>
        /\ ~crashed
        /\ failed # {} => ret = NULL
        /\ (ret # NULL /\ name # <<>>) => ret = CompletePath

ForwardPath == (CHOOSE o \in ads_build_path(name, sep, field, FALSE, {}) : TRUE).ret

(* C10: with reverse true the comma-separated segments of the result are   *)
(* the segments of the reverse=false result in reversed order.             *)
C10_ReverseReversesSegments ==
    (PathCalled /\ reverse /\ failed = {}) =>
        /\ ~crashed
        /\ ret # NULL
        /\ SplitOn(ret, {","}) = ReverseSeq(SplitOn(ForwardPath, {","}))

C10_Witness ==
    /\ PathCalled /\ reverse /\ failed = {}
    /\ Len(SplitOn(ret, {","})) >= 3
    /\ SplitOn(ret, {","}) # SplitOn(ForwardPath, {","})
    /\ SplitOn(ret, {","}) = ReverseSeq(SplitOn(ForwardPath, {","}))

LowerAlnum ==
    {"a", "b", "c", "d", "e", "f", "g", "h", "i", "j", "k", "l", "m", "n", "o", "p",
     "q", "r", "s", "t", "u", "v", "w", "x", "y", "z",
     "0", "1", "2", "3", "4", "5", "6", "7", "8", "9"}

(* s matches [a-z0-9]+(\.[a-z0-9]+)* *)
IsRealm(s) ==
    /\ s # <<>>
    /\ \A i \in 1..Len(s) : s[i] \in LowerAlnum \cup {"."}
    /\ s[1] # "." /\ s[Len(s)] # "."
    /\ \A i \in 1..(Len(s) - 1) : ~(s[i] = "." /\ s[i + 1] = ".")

DnThenDomain ==
    /\ pc = "domain"
    /\ sep = {"."} /\ field = <<"d", "c", "=">> /\ ~reverse
    /\ failed = {} /\ ~dfailed

(* C4: for a realm of non-empty lowercase alphanumeric labels separated by *)
(* single dots, ads_build_domain(ads_build_dn(realm)) is the realm.        *)
C4_RoundTrip ==
    (DnThenDomain /\ IsRealm(name)) => dnsdomain = name

C4_Witness ==
    /\ DnThenDomain /\ IsRealm(name)
    /\ Len(SplitOn(name, {"."})) >= 3
    /\ "a" \in {name[i] : i \in 1..Len(name)}
    /\ "b" \in {name[i] : i \in 1..Len(name)}
    /\ dnsdomain = name

(* ======================= properties of ADS_STRUCT ====================== *)

WrapBits == {ADS_AUTH_SASL_SIGN, ADS_AUTH_SASL_SEAL}

(* a step of ads_destroy through a handle that points to a live context *)
DestroysContext ==
    /\ op' = "destroy"
    /\ args'.ref = "handle"
    /\ ads = "ptr"
    /\ storage \in {"heap", "caller"}

(* C2 as stated: after ads_destroy on a non-null reference to a non-null   *)
(* context the caller's pointer is null, whoever owns the storage.         *)
C2_DestroyNullsHandle ==
    (op = "destroy" /\ args.ref = "handle" /\ args.handle = "ptr") => ads = "null"

(* C2, amended: ads_destroy nulls the caller's pointer exactly when        *)
(* is_mine was set at entry; a context in the caller's own storage keeps   *)
(* its pointer.                                                            *)
C2_DestroyNullsOwnedHandle ==
    [][DestroysContext => /\ (ads' = "null") <=> st.is_mine
                          /\ ~st.is_mine => ads' = ads]_vars

C2_Witness ==
    /\ op = "destroy" /\ args.ref = "handle" /\ args.handle = "ptr"
    /\ ndestroy = 1
    /\ storage = "caller"
    /\ ads = "ptr"
    /\ st = ZeroStruct

(* C3: ads_set_sasl_wrap_flags on a context returns true and leaves        *)
(* auth.flags = (old flags without the sign and seal bits) | new flags:    *)
(* every other bit that was set stays set, the sign and seal bits are      *)
(* those of the new flags, and nothing else of the context changes.        *)
C3_SetFlagsKeepsOtherBits ==
    [][(op' = "set_flags" /\ args'.handle = "ptr" /\ storage # "freed") =>
          /\ result' = TRUE
          /\ st'.flags = (st.flags \ WrapBits) \cup args'.flags
          /\ (st.flags \ WrapBits) \subseteq st'.flags
          /\ st'.flags \cap WrapBits = args'.flags \cap WrapBits
          /\ st' = [st EXCEPT !.flags = st'.flags]
          /\ ads' = ads /\ storage' = storage]_vars

C3_Witness ==
    /\ op = "set_flags" /\ args.handle = "ptr" /\ result
    /\ args.flags = {ADS_AUTH_SASL_SIGN}
    /\ st.flags = {ADS_AUTH_SASL_SIGN, ADS_AUTH_NO_BIND}

(* C5: ads_destroy frees every string the context holds, whoever owns the  *)
(* storage, and frees the context itself exactly when is_mine was set at   *)
(* entry; storage of the caller is never freed.                            *)
C5_DestroyReleasesOwned ==
    [][DestroysContext =>
          /\ \A f \in StrFields : st.str[f] # NULL => f \in released'
          /\ ("ctx" \in released') <=> st.is_mine
          /\ (storage' = "freed") <=> st.is_mine
          /\ ~st.is_mine => storage' = storage]_vars

C5_Witness ==
    /\ op = "destroy" /\ args.ref = "handle" /\ args.handle = "ptr"
    /\ storage = "caller"
    /\ "ctx" \notin released
    /\ ServerFields \subseteq released
    /\ released \cap (AuthFields \cup ConfigFields) # {}

(* C6: an ads_destroy directly after an ads_destroy on the same handle     *)
(* frees nothing, uses no freed memory and changes neither the context     *)
(* nor the handle.                                                         *)
C6_SecondDestroyIsNoOp ==
    [][(/\ op = "destroy" /\ args.ref = "handle" /\ args.handle = "ptr"
        /\ op' = "destroy" /\ args'.ref = "handle") =>
          /\ released' = {}
          /\ ~fault'
          /\ st' = st
          /\ ads' = ads
          /\ storage' = storage]_vars

C6_Witness ==
    /\ op = "destroy" /\ args.ref = "handle" /\ args.handle = "ptr"
    /\ ndestroy = 2
    /\ storage = "caller"
    /\ released = {}
    /\ ~fault

PolicyBase(wrap) == IF wrap = MinusOne THEN {} ELSE wrap

SaslExtra(sasl_state) ==
    IF sasl_state = "ADS_SASL_SIGN" THEN {ADS_AUTH_SASL_SIGN}
    ELSE IF sasl_state = "ADS_SASL_SEAL" THEN {ADS_AUTH_SASL_SEAL}
    ELSE {}

(* C7: the context ads_init returns has auth.flags = base | extra, base    *)
(* the policy value (nothing when the policy source reports an error),     *)
(* extra nothing for Plain, the sign bit for Sign, the seal bit for Seal.  *)
C7_InitFlags ==
    op = "init" => st.flags = PolicyBase(args.wrap) \cup SaslExtra(args.sasl_state)

C7_Witness ==
    /\ op = "init"
    /\ args.sasl_state = "ADS_SASL_SEAL"
    /\ args.wrap = {ADS_AUTH_NO_BIND}
    /\ st.flags = {ADS_AUTH_NO_BIND, ADS_AUTH_SASL_SEAL}

(* C8: in every context ads_init returns, is_mine is set and each server   *)
(* string is a copy of its input, absent only when the input was absent.   *)
C8_InitCopiesEveryInput ==
    op = "init" =>
        /\ st.is_mine
        /\ \A f \in ServerFields : st.str[f] = args.in[f]

====
